---- MODULE Spec2Model ----
(***************************************************************************)
(* solar: the lazily initialised process context of cli.go (solarCLI) and  *)
(* the operations on it: RPCPlatform, Reporter, ContractsRepository,       *)
(* ExpandJSONParams, ConfigureBytesOutputFormat and Deployer, called by    *)
(* concurrent goroutines.                                                  *)
(***************************************************************************)
EXTENDS Integers, Sequences, FiniteSets, TLC

\* ------------------------------------------------------------------ bounds
NumThreads == 2       \* goroutines calling into the context
MaxCalls == 2         \* top-level calls the tasks make in one run
MaxSegs == 2          \* segments (text or placeholder) of a template
\* Sends on the reporter's channel the goroutines begin in a run.
MaxEvents == 2

Threads == 1..NumThreads

\* ------------------------------------------------------------------ values
RPCSICash == 0
RPCEthereum == 1

\* The values the --sicash_rpc and --eth_rpc flags are drawn from: unset, an
\* absolute URL, and a string url.ParseRequestURI rejects.
SICashEndpoints == {"", "http://user:pw@a:3889", "a:3889"}
EthEndpoints == {"", "http://b:8545", "b:8545"}
EnvNames == {"development", "staging"}
RepoOverrides == {"", "contracts.json"}

Running == "running"
NilDeployer == [backend |-> "nil", inst |-> 0, url |-> "", repo |-> 0]
NoRet == [op |-> "", kind |-> "none", val |-> <<>>]

VARIABLES
    sicashRPC, ethRPC, solarEnv, solarRepo,  \* the parsed flags (read-only)
    depoyer, deployerOnce,                   \* solarCLI
    repo, repoOnce,
    reporter, reporterOnce,
    formatBytesWithPrefix,                   \* contract package toggle
    exit,           \* "running", or why the process ended
    opened,         \* paths passed to OpenContractsRepository, in order
    built,          \* backend constructor invocations, in order
    started,        \* reporters for which `go Start()` was issued, in order
    nevents,        \* events instances allocated
    calls,          \* top-level calls started so far
    recovered,      \* panics a task's deferred recover() has stopped so far
    mainpc,         \* where Main is: "parse", "configure", "task"; "none" when
                    \* the goroutines call the context without Main
    configured,     \* times Main has run solar.ConfigureBytesOutputFormat()
    inbuf,          \* events buffered in the reporter's channel `in`
    drain,          \* the goroutine running events.Start: "none", "started",
                    \* "receiving" (waiting at the channel) or "handling"
    reports,        \* sends on `in` begun so far
    pc, op, cont, arg, rv, deployer, err, ret   \* per goroutine

config == <<sicashRPC, ethRPC, solarEnv, solarRepo>>
ctx == <<depoyer, deployerOnce, repo, repoOnce, reporter, reporterOnce>>
env == <<formatBytesWithPrefix, opened, built, started, nevents, recovered>>
locals == <<cont, arg, rv, deployer, err>>
main == <<mainpc, configured>>
chan == <<inbuf, drain, reports>>
vars == <<config, ctx, env, main, chan, exit, pc, op, locals, calls, ret>>

\* ------------------------------------------------------------------ sync.Once
\* sync.Once: a done flag and a mutex (m = 0 when free, else the holder).
NewOnce == [done |-> FALSE, m |-> 0]

\* Do's fast path: done is already set.
OnceFast(once) == once.done

\* doSlow's m.Lock(): only when the mutex is free.
OnceCanLock(once) == once.m = 0

OnceLock(once, t) == [once EXCEPT !.m = t]

\* doSlow after the lock: f runs only if done is still unset.
OnceMustRun(once) == ~once.done

\* The deferred done.Store(1) and m.Unlock() after f returned.
OnceFinish(once) == [done |-> TRUE, m |-> 0]

\* The deferred m.Unlock() when f was not run.
OnceUnlock(once) == [once EXCEPT !.m = 0]

\* ------------------------------------------------------------------ flags
\* url.ParseRequestURI: an absolute URI (scheme "://" ...) parses, the empty
\* string and a scheme-less host:port do not.
ParseRequestURI(rawurl) ==
    IF rawurl \in {"http://user:pw@a:3889", "http://b:8545"}
    THEN [err |-> FALSE, url |-> rawurl]
    ELSE [err |-> TRUE, url |-> ""]

\* RPCPlatform's log.Fatalln(errorUnspecifiedRPC) branch.
RPCPlatformFatal == sicashRPC = "" /\ ethRPC = ""

\* RPCPlatform testing the eth flag first.
RPCPlatformEthFirst == IF ethRPC # "" THEN RPCEthereum ELSE RPCSICash

\* RPCPlatform's return value when it returns.
RPCPlatform == IF sicashRPC # "" THEN RPCSICash ELSE RPCEthereum

\* The path without the --repo override.
repoFilePathEnvOnly == "solar." \o solarEnv \o ".json"

\* The path ContractsRepository hands to OpenContractsRepository.
repoFilePath ==
    IF solarRepo # "" THEN solarRepo ELSE "solar." \o solarEnv \o ".json"

\* ConfigureBytesOutputFormat: the toggle after the call, given it before.
ConfigureBytesOutputFormat(prefix) == IF ethRPC # "" THEN TRUE ELSE prefix

\* ------------------------------------------------------------------ templates
\* A string is a sequence of one-character strings.
IdentChars == {"T", "U", "M", "N"}
Names == {<<"T">>, <<"U">>, <<"M">>, <<"N">>}
Texts == {<<"=">>, <<"T">>}

\* The repository file's content: contract name -> address (hex digits).
Contracts == (<<"T">> :> <<"1">>) @@ (<<"U">> :> <<"2">>)

Segments ==
    [kind : {"text"}, s : Texts] \cup [kind : {"bare", "braced"}, s : Names]

RECURSIVE SeqsUpTo(_, _)
SeqsUpTo(S, n) ==
    IF n = 0 THEN {<<>>}
    ELSE LET shorter == SeqsUpTo(S, n - 1)
         IN  shorter \cup {Append(q, x) : q \in shorter, x \in S}

\* The surface syntax of one segment: text, $Name or ${Name}.
RenderSegment(g) ==
    CASE g.kind = "text" -> g.s
      [] g.kind = "bare" -> <<"$">> \o g.s
      [] g.kind = "braced" -> <<"$", "{">> \o g.s \o <<"}">>

RECURSIVE Render(_)
Render(segs) ==
    IF segs = <<>> THEN <<>> ELSE RenderSegment(Head(segs)) \o Render(Tail(segs))

\* contract.Address.String(): hex, with the 0x prefix when the toggle is on.
AddressString(addr) ==
    IF formatBytesWithPrefix THEN <<"0", "x">> \o addr ELSE addr

\* repo.Get(key) on the handle ExpandJSONParams holds; a nil handle is a nil
\* dereference, which Go raises as a run-time panic.
RepoGet(handle, key) ==
    IF handle = 0 THEN [nilptr |-> TRUE, found |-> FALSE, address |-> <<>>]
    ELSE IF key \in DOMAIN Contracts
    THEN [nilptr |-> FALSE, found |-> TRUE, address |-> Contracts[key]]
    ELSE [nilptr |-> FALSE, found |-> FALSE, address |-> <<>>]

\* The mapping returning the contract's name instead of its address.
MappingReturnsName(handle, key) ==
    LET c == RepoGet(handle, key)
    IN  IF c.nilptr THEN [panic |-> TRUE, val |-> <<"nil dereference">>]
        ELSE IF ~c.found
        THEN [panic |-> TRUE, val |-> key]
        ELSE [panic |-> FALSE, val |-> key]

\* The mapping substituting nothing for an unknown name instead of panicking.
MappingNoPanic(handle, key) ==
    LET c == RepoGet(handle, key)
    IN  IF c.nilptr THEN [panic |-> TRUE, val |-> <<"nil dereference">>]
        ELSE IF ~c.found
        THEN [panic |-> FALSE, val |-> <<>>]
        ELSE [panic |-> FALSE, val |-> AddressString(c.address)]

\* The mapping closure ExpandJSONParams passes to varstr.Expand.
Mapping(handle, key) ==
    LET c == RepoGet(handle, key)
    IN  IF c.nilptr THEN [panic |-> TRUE, val |-> <<"nil dereference">>]
        ELSE IF ~c.found
        THEN [panic |-> TRUE, val |-> key]
        ELSE [panic |-> FALSE, val |-> AddressString(c.address)]

RECURSIVE IdentEnd(_, _)
\* The index after the longest run of identifier characters starting at i.
IdentEnd(s, i) ==
    IF i <= Len(s) /\ s[i] \in IdentChars THEN IdentEnd(s, i + 1) ELSE i

\* The placeholder starting at the sigil s[i], if one does.
PlaceholderAt(s, i) ==
    IF i + 1 <= Len(s) /\ s[i + 1] = "{"
    THEN LET j == IdentEnd(s, i + 2)
         IN  IF j > i + 2 /\ j <= Len(s) /\ s[j] = "}"
             THEN [is |-> TRUE, name |-> SubSeq(s, i + 2, j - 1), next |-> j + 1]
             ELSE [is |-> FALSE, name |-> <<>>, next |-> i + 1]
    ELSE LET j == IdentEnd(s, i + 1)
         IN  IF j > i + 1
             THEN [is |-> TRUE, name |-> SubSeq(s, i + 1, j - 1), next |-> j]
             ELSE [is |-> FALSE, name |-> <<>>, next |-> i + 1]

RECURSIVE ExpandFrom(_, _, _, _)
\* varstr.Expand from position i with `out` already produced: single pass,
\* left to right; the mapping's panic ends the scan.
ExpandFrom(s, i, out, handle) ==
    IF i > Len(s) THEN [panic |-> FALSE, val |-> out]
    ELSE IF s[i] = "$" /\ PlaceholderAt(s, i).is
    THEN LET p == PlaceholderAt(s, i)
             m == Mapping(handle, p.name)
         IN  IF m.panic THEN m ELSE ExpandFrom(s, p.next, out \o m.val, handle)
    ELSE ExpandFrom(s, i + 1, Append(out, s[i]), handle)

\* varstr.Expand(jsonParams, mapping) with the mapping bound to `handle`.
Expand(s, handle) == ExpandFrom(s, 1, <<>>, handle)

\* ------------------------------------------------------------------ Init
\* Every template of at most MaxSegs segments.
AllTemplates == SeqsUpTo(Segments, MaxSegs)

\* The templates the tasks of the concurrent specification pass.
TaskTemplates ==
    { <<[kind |-> "text", s |-> <<"=">>], [kind |-> "bare", s |-> <<"T">>]>>,
      <<[kind |-> "braced", s |-> <<"M">>]>> }

InitContext ==
    /\ depoyer = NilDeployer
    /\ deployerOnce = NewOnce
    /\ repo = 0
    /\ repoOnce = NewOnce
    /\ reporter = 0
    /\ reporterOnce = NewOnce
    /\ formatBytesWithPrefix = FALSE
    /\ exit = Running
    /\ opened = <<>>
    /\ built = <<>>
    /\ started = <<>>
    /\ nevents = 0
    /\ calls = 0
    /\ recovered = 0
    /\ pc = [t \in Threads |-> "idle"]
    /\ op = [t \in Threads |-> ""]
    /\ cont = [t \in Threads |-> ""]
    /\ arg = [t \in Threads |-> <<>>]
    /\ rv = [t \in Threads |-> 0]
    /\ deployer = [t \in Threads |-> NilDeployer]
    /\ err = [t \in Threads |-> "nil"]
    /\ ret = [t \in Threads |-> NoRet]
    /\ configured = 0
    /\ inbuf = <<>>
    /\ drain = "none"
    /\ reports = 0

\* Concurrent tasks under every endpoint configuration, with the default
\* repository (--env development) or an overridden one.
Init ==
    /\ sicashRPC \in SICashEndpoints
    /\ ethRPC \in EthEndpoints
    /\ \E p \in {<<"development", "">>, <<"staging", "contracts.json">>} :
          solarEnv = p[1] /\ solarRepo = p[2]
    /\ mainpc = "none"
    /\ InitContext

\* Every --env and --repo setting, for the tasks that open the repository.
InitRepo ==
    /\ sicashRPC = "http://user:pw@a:3889"
    /\ ethRPC = ""
    /\ solarEnv \in EnvNames
    /\ solarRepo \in RepoOverrides
    /\ mainpc = "none"
    /\ InitContext

\* The main goroutine alone with --eth_rpc set: addresses are rendered bare
\* until ConfigureBytesOutputFormat has run and prefixed afterwards.
InitExpand ==
    /\ sicashRPC = ""
    /\ ethRPC = "http://b:8545"
    /\ solarEnv = "development"
    /\ solarRepo = ""
    /\ mainpc = "none"
    /\ InitContext

\* The process at the start of Main, under every pair of endpoint flags.
InitMain ==
    /\ sicashRPC \in SICashEndpoints
    /\ ethRPC \in EthEndpoints
    /\ solarEnv = "development"
    /\ solarRepo = ""
    /\ mainpc = "parse"
    /\ InitContext

\* ------------------------------------------------------------------ steps
\* A goroutine of the running process is at position `at`.
At(t, at) == exit = Running /\ pc[t] = at

\* A task starts a top-level call.
Begin(t, name) ==
    /\ At(t, "idle")
    /\ mainpc \in {"none", "task"}
    /\ calls < MaxCalls
    /\ calls' = calls + 1
    /\ op' = [op EXCEPT ![t] = name]

Returned(name, val) == [op |-> name, kind |-> "returned", val |-> val]
Fatal(name, why) == [op |-> name, kind |-> "fatal", val |-> why]
Panicked(name, val) == [op |-> name, kind |-> "panic", val |-> val]

Goto(t, at) == pc' = [pc EXCEPT ![t] = at]

\* ---- RPCPlatform
CallRPCPlatform(t) ==
    /\ Begin(t, "RPCPlatform")
    /\ IF RPCPlatformFatal
       THEN /\ exit' = "unspecified RPC"
            /\ ret' = [ret EXCEPT ![t] = Fatal("RPCPlatform", "unspecified RPC")]
       ELSE /\ exit' = exit
            /\ ret' = [ret EXCEPT ![t] = Returned("RPCPlatform", RPCPlatform)]
    /\ UNCHANGED <<config, main, chan, ctx, env, pc, locals>>

\* ---- ConfigureBytesOutputFormat
CallConfigureBytesOutputFormat(t) ==
    /\ Begin(t, "ConfigureBytesOutputFormat")
    /\ formatBytesWithPrefix' = ConfigureBytesOutputFormat(formatBytesWithPrefix)
    /\ ret' = [ret EXCEPT ![t] = Returned("ConfigureBytesOutputFormat", <<>>)]
    /\ UNCHANGED <<config, main, chan, ctx, opened, built, started, nevents, recovered, exit,
                   pc, locals>>

\* ---- ContractsRepository
\* Enter ContractsRepository; `k` is where the caller resumes ("return" for a
\* task's direct call).
EnterContractsRepository(t, k) ==
    /\ Goto(t, "repo_once")
    /\ cont' = [cont EXCEPT ![t] = k]

CallContractsRepository(t) ==
    /\ Begin(t, "ContractsRepository")
    /\ EnterContractsRepository(t, "return")
    /\ ret' = [ret EXCEPT ![t] = NoRet]
    /\ UNCHANGED <<config, main, chan, ctx, env, exit, arg, rv, deployer, err>>

\* ContractsRepository without the Once: every caller runs the open.
RepoOnceEntryNoOnce == "repo_init"

\* Where ContractsRepository goes first: c.repoOnce.Do(f), whose fast path
\* skips f once done is set.
RepoOnceEntry == IF OnceFast(repoOnce) THEN "repo_ret" ELSE "repo_lock"

RepoOnceDo(t) ==
    /\ At(t, "repo_once")
    /\ Goto(t, RepoOnceEntry)
    /\ UNCHANGED <<config, main, chan, ctx, env, exit, op, locals, calls, ret>>

\* doSlow: take the mutex, look at done again.
RepoOnceLock(t) ==
    /\ At(t, "repo_lock")
    /\ OnceCanLock(repoOnce)
    /\ repoOnce' = OnceLock(repoOnce, t)
    /\ Goto(t, IF OnceMustRun(repoOnce) THEN "repo_init" ELSE "repo_unlock")
    /\ UNCHANGED <<config, main, chan, depoyer, deployerOnce, repo, reporter, reporterOnce,
                   env, exit, op, locals, calls, ret>>

\* The once body reporting a failed open and carrying on instead of exiting.
RepoInitNoExit(t) ==
    /\ At(t, "repo_init")
    /\ opened' = Append(opened, repoFilePath)
    /\ \E ok \in BOOLEAN : repo' = IF ok THEN Len(opened') ELSE repo
    /\ Goto(t, "repo_done")
    /\ UNCHANGED <<config, main, chan, depoyer, deployerOnce, repoOnce, reporter, reporterOnce,
                   formatBytesWithPrefix, built, started, nevents, recovered, exit,
                   op, locals, calls, ret>>

\* The function passed to repoOnce.Do: resolve the path, open, store.
RepoInit(t) ==
    /\ At(t, "repo_init")
    /\ opened' = Append(opened, repoFilePath)
    /\ \E ok \in BOOLEAN :
          IF ok
          THEN /\ repo' = Len(opened')
               /\ Goto(t, "repo_done")
               /\ UNCHANGED <<exit, ret>>
          ELSE /\ exit' = "repo open failed"
               /\ ret' = [ret EXCEPT ![t] = Fatal(op[t], "repo open failed")]
               /\ UNCHANGED <<repo, pc>>
    /\ UNCHANGED <<config, main, chan, depoyer, deployerOnce, repoOnce, reporter, reporterOnce,
                   formatBytesWithPrefix, built, started, nevents, recovered, op, locals,
                   calls>>

\* The deferred done.Store(1) and m.Unlock().
RepoOnceDone(t) ==
    /\ At(t, "repo_done")
    /\ repoOnce' = OnceFinish(repoOnce)
    /\ Goto(t, "repo_ret")
    /\ UNCHANGED <<config, main, chan, depoyer, deployerOnce, repo, reporter, reporterOnce,
                   env, exit, op, locals, calls, ret>>

\* The deferred m.Unlock() of a caller that found done set under the lock.
RepoOnceUnlock(t) ==
    /\ At(t, "repo_unlock")
    /\ repoOnce' = OnceUnlock(repoOnce)
    /\ Goto(t, "repo_ret")
    /\ UNCHANGED <<config, main, chan, depoyer, deployerOnce, repo, reporter, reporterOnce,
                   env, exit, op, locals, calls, ret>>

\* return c.repo
RepoReturn(t) ==
    /\ At(t, "repo_ret")
    /\ IF cont[t] = "return"
       THEN /\ Goto(t, "idle")
            /\ ret' = [ret EXCEPT ![t] = Returned("ContractsRepository", repo)]
            /\ rv' = rv
       ELSE /\ Goto(t, cont[t])
            /\ rv' = [rv EXCEPT ![t] = repo]
            /\ ret' = ret
    /\ cont' = [cont EXCEPT ![t] = ""]
    /\ UNCHANGED <<config, main, chan, ctx, env, exit, op, arg, deployer, err, calls>>

\* ---- Reporter
CallReporter(t) ==
    /\ Begin(t, "Reporter")
    /\ Goto(t, "rep_once")
    /\ ret' = [ret EXCEPT ![t] = NoRet]
    /\ UNCHANGED <<config, main, chan, ctx, env, exit, locals>>

\* Reporter without the Once: every caller allocates and starts a reporter.
ReporterOnceEntryNoOnce == "rep_init"

\* Where Reporter goes first: c.reporterOnce.Do(f).
ReporterOnceEntry == IF OnceFast(reporterOnce) THEN "rep_ret" ELSE "rep_lock"

ReporterOnceDo(t) ==
    /\ At(t, "rep_once")
    /\ Goto(t, ReporterOnceEntry)
    /\ UNCHANGED <<config, main, chan, ctx, env, exit, op, locals, calls, ret>>

ReporterOnceLock(t) ==
    /\ At(t, "rep_lock")
    /\ OnceCanLock(reporterOnce)
    /\ reporterOnce' = OnceLock(reporterOnce, t)
    /\ Goto(t, IF OnceMustRun(reporterOnce) THEN "rep_init" ELSE "rep_unlock")
    /\ UNCHANGED <<config, main, chan, depoyer, deployerOnce, repo, repoOnce, reporter,
                   env, exit, op, locals, calls, ret>>

\* The once body sending a first event on the new channel before the
\* goroutine that receives from it is started.
ReporterInitSendsFirst(t) ==
    /\ At(t, "rep_init")
    /\ nevents' = nevents + 1
    /\ reporter' = nevents'
    /\ reports' = reports + 1
    /\ Goto(t, "rep_send")
    /\ UNCHANGED <<config, main, inbuf, drain, depoyer, deployerOnce, repo, repoOnce,
                   reporterOnce, formatBytesWithPrefix, opened, built, started,
                   recovered, exit, op, locals, calls, ret>>

\* The function passed to reporterOnce.Do: allocate the events value with its
\* channel, then `go c.reporter.Start()`.
ReporterInit(t) ==
    /\ At(t, "rep_init")
    /\ nevents' = nevents + 1
    /\ reporter' = nevents'
    /\ started' = Append(started, reporter')
    /\ drain' = "started"
    /\ Goto(t, "rep_done")
    /\ UNCHANGED <<config, main, inbuf, reports, depoyer, deployerOnce, repo, repoOnce, reporterOnce,
                   formatBytesWithPrefix, opened, built, recovered, exit, op, locals,
                   calls, ret>>

ReporterOnceDone(t) ==
    /\ At(t, "rep_done")
    /\ reporterOnce' = OnceFinish(reporterOnce)
    /\ Goto(t, "rep_ret")
    /\ UNCHANGED <<config, main, chan, depoyer, deployerOnce, repo, repoOnce, reporter,
                   env, exit, op, locals, calls, ret>>

ReporterOnceUnlock(t) ==
    /\ At(t, "rep_unlock")
    /\ reporterOnce' = OnceUnlock(reporterOnce)
    /\ Goto(t, "rep_ret")
    /\ UNCHANGED <<config, main, chan, depoyer, deployerOnce, repo, repoOnce, reporter,
                   env, exit, op, locals, calls, ret>>

\* return c.reporter
ReporterReturn(t) ==
    /\ At(t, "rep_ret")
    /\ Goto(t, "idle")
    /\ ret' = [ret EXCEPT ![t] = Returned("Reporter", reporter)]
    /\ UNCHANGED <<config, main, chan, ctx, env, exit, op, locals, calls>>

\* ---- Deployer
\* What a backend constructor hands back: a deployer, or an error with either
\* a nil interface or a nil pointer wrapped in a non-nil interface.
CtorOutcomes == {"ok", "error", "error, typed nil"}

NewDeployer(backend, inst, rpcURL, handle, outcome) ==
    CASE outcome = "ok" ->
           [deployer |-> [backend |-> backend, inst |-> inst, url |-> rpcURL,
                          repo |-> handle],
            err |-> "nil"]
      [] outcome = "error" ->
           [deployer |-> NilDeployer, err |-> backend \o ".NewDeployer failed"]
      [] outcome = "error, typed nil" ->
           [deployer |-> [backend |-> backend, inst |-> 0, url |-> "", repo |-> 0],
            err |-> backend \o ".NewDeployer failed"]

\* The log entry of a constructor invocation.
Built(backend, rpcURL, handle, outcome) ==
    [backend |-> backend, url |-> rpcURL, repo |-> handle, ok |-> outcome = "ok"]

CallDeployer(t) ==
    /\ Begin(t, "Deployer")
    /\ Goto(t, "dep_sicash")
    /\ deployer' = [deployer EXCEPT ![t] = NilDeployer]
    /\ err' = [err EXCEPT ![t] = "nil"]
    /\ ret' = [ret EXCEPT ![t] = NoRet]
    /\ UNCHANGED <<config, main, chan, ctx, env, exit, cont, arg, rv>>

\* The sicash branch handing the constructor the repo field as it is,
\* without going through ContractsRepository().
DeployerSICashRepoField(t) ==
    /\ At(t, "dep_sicash")
    /\ IF sicashRPC = ""
       THEN /\ Goto(t, "dep_eth")
            /\ UNCHANGED <<exit, ret, rv>>
       ELSE IF ParseRequestURI(sicashRPC).err
       THEN /\ exit' = "invalid RPC url"
            /\ ret' = [ret EXCEPT ![t] = Fatal("Deployer", "invalid RPC url")]
            /\ UNCHANGED <<pc, rv>>
       ELSE /\ rv' = [rv EXCEPT ![t] = repo]
            /\ Goto(t, "dep_new_sicash")
            /\ UNCHANGED <<exit, ret>>
    /\ UNCHANGED <<config, main, chan, ctx, env, op, cont, arg, deployer, err, calls>>

\* if rawurl := *sicashRPC; rawurl != "" { parse; the argument
\* c.ContractsRepository() is evaluated before the constructor is called }
DeployerSICash(t) ==
    /\ At(t, "dep_sicash")
    /\ IF sicashRPC = ""
       THEN /\ Goto(t, "dep_eth")
            /\ UNCHANGED <<exit, ret, cont>>
       ELSE IF ParseRequestURI(sicashRPC).err
       THEN /\ exit' = "invalid RPC url"
            /\ ret' = [ret EXCEPT ![t] = Fatal("Deployer", "invalid RPC url")]
            /\ UNCHANGED <<pc, cont>>
       ELSE /\ EnterContractsRepository(t, "dep_new_sicash")
            /\ UNCHANGED <<exit, ret>>
    /\ UNCHANGED <<config, main, chan, ctx, env, op, arg, rv, deployer, err, calls>>

\* deployer, err = sicash.NewDeployer(rpcURL, repo, sender)
DeployerNewSICash(t) ==
    /\ At(t, "dep_new_sicash")
    /\ \E outcome \in CtorOutcomes :
          LET url == ParseRequestURI(sicashRPC).url
              r == NewDeployer("sicash", Len(built) + 1, url, rv[t], outcome)
          IN  /\ built' = Append(built, Built("sicash", url, rv[t], outcome))
              /\ deployer' = [deployer EXCEPT ![t] = r.deployer]
              /\ err' = [err EXCEPT ![t] = r.err]
    /\ Goto(t, "dep_eth")
    /\ UNCHANGED <<config, main, chan, ctx, formatBytesWithPrefix, opened, started, nevents,
                   recovered, exit, op, cont, arg, rv, calls, ret>>

\* if rawurl := *ethRPC; rawurl != "" { ... }
DeployerEth(t) ==
    /\ At(t, "dep_eth")
    /\ IF ethRPC = ""
       THEN /\ Goto(t, "dep_check")
            /\ UNCHANGED <<exit, ret, cont>>
       ELSE IF ParseRequestURI(ethRPC).err
       THEN /\ exit' = "invalid RPC url"
            /\ ret' = [ret EXCEPT ![t] = Fatal("Deployer", "invalid RPC url")]
            /\ UNCHANGED <<pc, cont>>
       ELSE /\ EnterContractsRepository(t, "dep_new_eth")
            /\ UNCHANGED <<exit, ret>>
    /\ UNCHANGED <<config, main, chan, ctx, env, op, arg, rv, deployer, err, calls>>

\* deployer, err = eth.NewDeployer(rpcURL, repo)
DeployerNewEth(t) ==
    /\ At(t, "dep_new_eth")
    /\ \E outcome \in CtorOutcomes :
          LET url == ParseRequestURI(ethRPC).url
              r == NewDeployer("eth", Len(built) + 1, url, rv[t], outcome)
          IN  /\ built' = Append(built, Built("eth", url, rv[t], outcome))
              /\ deployer' = [deployer EXCEPT ![t] = r.deployer]
              /\ err' = [err EXCEPT ![t] = r.err]
    /\ Goto(t, "dep_check")
    /\ UNCHANGED <<config, main, chan, ctx, formatBytesWithPrefix, opened, started, nevents,
                   recovered, exit, op, cont, arg, rv, calls, ret>>

\* Deployer without its `deployer == nil` check.
DeployerResultNoNilCheck(d, e) ==
    IF e # "nil" THEN Fatal("Deployer", "NewDeployer error " \o e)
    ELSE Returned("Deployer", d)

\* How Deployer ends, from its deployer and err variables.
DeployerResult(d, e) ==
    IF d = NilDeployer THEN Fatal("Deployer", "unspecified RPC")
    ELSE IF e # "nil" THEN Fatal("Deployer", "NewDeployer error " \o e)
    ELSE Returned("Deployer", d)

\* if deployer == nil { fatal }; if err != nil { fatal }; return deployer
DeployerCheck(t) ==
    /\ At(t, "dep_check")
    /\ LET r == DeployerResult(deployer[t], err[t])
       IN  /\ ret' = [ret EXCEPT ![t] = r]
           /\ IF r.kind = "fatal"
              THEN exit' = r.val /\ UNCHANGED <<pc, rv, deployer, err>>
              ELSE /\ exit' = exit
                   /\ Goto(t, "idle")
                   /\ rv' = [rv EXCEPT ![t] = 0]
                   /\ deployer' = [deployer EXCEPT ![t] = NilDeployer]
                   /\ err' = [err EXCEPT ![t] = "nil"]
    /\ UNCHANGED <<config, main, chan, ctx, env, op, cont, arg, calls>>

\* ---- ExpandJSONParams
\* A task calls ExpandJSONParams with one of `given`; arg keeps the template
\* by its segments, jsonParams is their rendering.
BeginExpandJSONParams(t, given) ==
    /\ Begin(t, "ExpandJSONParams")
    /\ \E segs \in given : arg' = [arg EXCEPT ![t] = segs]
    /\ EnterContractsRepository(t, "exp_expand")
    /\ ret' = [ret EXCEPT ![t] = NoRet]
    /\ UNCHANGED <<config, main, chan, ctx, env, exit, rv, deployer, err>>

CallExpandJSONParams(t) == BeginExpandJSONParams(t, TaskTemplates)

CallExpandJSONParamsAny(t) == BeginExpandJSONParams(t, AllTemplates)

\* return varstr.Expand(jsonParams, mapping): the string, or the mapping's panic.
ExpandJSONParams(t) ==
    /\ At(t, "exp_expand")
    /\ LET jsonParams == Render(arg[t])
           r == Expand(jsonParams, rv[t])
       IN  IF r.panic
           THEN /\ ret' = [ret EXCEPT ![t] = Panicked("ExpandJSONParams", r.val)]
                /\ Goto(t, "panicking")
           ELSE /\ ret' = [ret EXCEPT ![t] = Returned("ExpandJSONParams", r.val)]
                /\ Goto(t, "idle")
    /\ rv' = [rv EXCEPT ![t] = 0]
    /\ UNCHANGED <<config, main, chan, ctx, env, exit, op, cont, arg, deployer, err, calls>>

\* The panic leaves ExpandJSONParams, which defers nothing, and unwinds the
\* calling task. A recover() deferred by the task stops it there.
PanicRecovered(t) ==
    /\ At(t, "panicking")
    /\ Goto(t, "idle")
    /\ recovered' = recovered + 1
    /\ UNCHANGED <<config, main, chan, ctx, formatBytesWithPrefix, opened, built, started,
                   nevents, exit, op, locals, calls, ret>>

\* Nothing recovers: the panic passes the task and Main, which defers nothing
\* either, and the run time ends the process.
PanicUnrecovered(t) ==
    /\ At(t, "panicking")
    /\ exit' = "panic"
    /\ UNCHANGED <<config, main, chan, ctx, env, pc, op, locals, calls, ret>>

\* ------------------------------------------------------------------ Spec
Step(t) ==
    \/ CallRPCPlatform(t)
    \/ CallConfigureBytesOutputFormat(t)
    \/ CallContractsRepository(t)
    \/ RepoOnceDo(t)
    \/ RepoOnceLock(t)
    \/ RepoInit(t)
    \/ RepoOnceDone(t)
    \/ RepoOnceUnlock(t)
    \/ RepoReturn(t)
    \/ CallReporter(t)
    \/ ReporterOnceDo(t)
    \/ ReporterOnceLock(t)
    \/ ReporterInit(t)
    \/ ReporterOnceDone(t)
    \/ ReporterOnceUnlock(t)
    \/ ReporterReturn(t)
    \/ CallDeployer(t)
    \/ DeployerSICash(t)
    \/ DeployerNewSICash(t)
    \/ DeployerEth(t)
    \/ DeployerNewEth(t)
    \/ DeployerCheck(t)
    \/ CallExpandJSONParams(t)
    \/ ExpandJSONParams(t)
    \/ PanicRecovered(t)
    \/ PanicUnrecovered(t)

Next == \E t \in Threads : Step(t)

Spec == Init /\ [][Next]_vars

\* Tasks that only fetch the contracts repository.
StepRepo(t) ==
    \/ CallContractsRepository(t)
    \/ RepoOnceDo(t)
    \/ RepoOnceLock(t)
    \/ RepoInit(t)
    \/ RepoOnceDone(t)
    \/ RepoOnceUnlock(t)
    \/ RepoReturn(t)

NextRepo == \E t \in Threads : StepRepo(t)

SpecRepo == InitRepo /\ [][NextRepo]_vars

\* One task on the main goroutine: Main's ConfigureBytesOutputFormat and
\* expansions, one after the other.
MainThread == 1

NextExpand ==
    \/ CallConfigureBytesOutputFormat(MainThread)
    \/ CallExpandJSONParamsAny(MainThread)
    \/ RepoOnceDo(MainThread)
    \/ RepoOnceLock(MainThread)
    \/ RepoInit(MainThread)
    \/ RepoOnceDone(MainThread)
    \/ RepoReturn(MainThread)
    \/ ExpandJSONParams(MainThread)
    \/ PanicRecovered(MainThread)
    \/ PanicUnrecovered(MainThread)

SpecExpand == InitExpand /\ [][NextExpand]_vars

\* ---- the reporter's channel
\* A channel with room for two events.
ChanCapBuffered == 1 + 1

\* make(chan interface{}): no capacity argument, an unbuffered channel.
ChanCap == 0

\* A goroutine that holds the reporter it got from Reporter() reports an event.
CallReport(t) ==
    /\ At(t, "idle")
    /\ mainpc \in {"none", "task"}
    /\ ret[t].op = "Reporter" /\ ret[t].kind = "returned"
    /\ reports < MaxEvents
    /\ reports' = reports + 1
    /\ Goto(t, "rep_send")
    /\ UNCHANGED <<config, main, inbuf, drain, ctx, env, exit, op, locals, calls, ret>>

\* The send on `in`: handed to the receiver if it waits at the channel, else
\* put in the buffer if there is room, else the sender stays blocked.
Send(t) ==
    /\ At(t, "rep_send")
    /\ IF drain = "receiving"
       THEN drain' = "handling" /\ UNCHANGED inbuf
       ELSE /\ Len(inbuf) < ChanCap
            /\ inbuf' = Append(inbuf, t)
            /\ UNCHANGED drain
    /\ Goto(t, "idle")
    /\ UNCHANGED <<config, main, reports, ctx, env, exit, op, locals, calls, ret>>

\* events.Start arriving at the channel: it takes the oldest buffered event,
\* or waits for a sender.
DrainReceive ==
    IF inbuf # <<>>
    THEN inbuf' = Tail(inbuf) /\ drain' = "handling"
    ELSE drain' = "receiving" /\ UNCHANGED inbuf

\* The goroutine started by `go c.reporter.Start()` gets to run.
DrainStart ==
    /\ exit = Running
    /\ drain = "started"
    /\ DrainReceive
    /\ UNCHANGED <<config, main, reports, ctx, env, exit, pc, op, locals, calls, ret>>

\* Start has processed an event and comes back to the channel.
DrainHandled ==
    /\ exit = Running
    /\ drain = "handling"
    /\ DrainReceive
    /\ UNCHANGED <<config, main, reports, ctx, env, exit, pc, op, locals, calls, ret>>

\* One endpoint setting (--sicash_rpc): the goroutines use the accessors and
\* the reporter's channel.
InitReporter ==
    /\ sicashRPC = "http://user:pw@a:3889"
    /\ ethRPC = ""
    /\ solarEnv = "development"
    /\ solarRepo = ""
    /\ mainpc = "none"
    /\ InitContext

\* The steps inside a call goroutine t has begun.
Work(t) ==
    \/ RepoOnceDo(t)
    \/ RepoOnceLock(t)
    \/ RepoInit(t)
    \/ RepoOnceDone(t)
    \/ RepoOnceUnlock(t)
    \/ RepoReturn(t)
    \/ ReporterOnceDo(t)
    \/ ReporterOnceLock(t)
    \/ ReporterInit(t)
    \/ ReporterOnceDone(t)
    \/ ReporterOnceUnlock(t)
    \/ ReporterReturn(t)
    \/ Send(t)
    \/ DeployerSICash(t)
    \/ DeployerNewSICash(t)
    \/ DeployerEth(t)
    \/ DeployerCheck(t)
    \/ ExpandJSONParams(t)
    \/ PanicRecovered(t)
    \/ PanicUnrecovered(t)

StepReporter(t) ==
    \/ CallReporter(t)
    \/ CallReport(t)
    \/ CallContractsRepository(t)
    \/ CallDeployer(t)
    \/ CallExpandJSONParams(t)
    \/ Work(t)

DrainStep == DrainStart \/ DrainHandled

NextReporter == (\E t \in Threads : StepReporter(t)) \/ DrainStep

SpecReporter == InitReporter /\ [][NextReporter]_vars

\* ---- Main
\* Main going from a successful parse straight to the task.
MainSkipsConfigure == "task"

\* Where Main goes after a successful parse: solar.ConfigureBytesOutputFormat().
MainAfterParse == "configure"

\* cmdName, err := app.Parse(os.Args[1:]); an error is printed and the
\* process exits with status 1.
MainParse ==
    /\ exit = Running
    /\ mainpc = "parse"
    /\ \E ok \in BOOLEAN :
          IF ok
          THEN mainpc' = MainAfterParse /\ UNCHANGED exit
          ELSE exit' = "parse failed" /\ UNCHANGED mainpc
    /\ UNCHANGED <<config, ctx, env, configured, chan, pc, op, locals, calls, ret>>

\* solar.ConfigureBytesOutputFormat(), then task := appTasks[cmdName].
MainConfigure ==
    /\ exit = Running
    /\ mainpc = "configure"
    /\ formatBytesWithPrefix' = ConfigureBytesOutputFormat(formatBytesWithPrefix)
    /\ configured' = configured + 1
    /\ mainpc' = "task"
    /\ UNCHANGED <<config, ctx, opened, built, started, nevents, recovered, chan,
                   exit, pc, op, locals, calls, ret>>

\* err = task() has come back: an error is printed and the process exits with
\* status 1, otherwise Main returns and the process ends.
MainTaskReturn ==
    /\ mainpc = "task"
    /\ At(MainThread, "idle")
    /\ \E failed \in BOOLEAN :
          exit' = IF failed THEN "task failed" ELSE "main returned"
    /\ UNCHANGED <<config, ctx, env, main, chan, pc, op, locals, calls, ret>>

\* Main from its first statement, the task calling into the context from the
\* main goroutine.
NextMain ==
    \/ MainParse
    \/ MainConfigure
    \/ MainTaskReturn
    \/ CallRPCPlatform(MainThread)
    \/ CallContractsRepository(MainThread)
    \/ RepoOnceDo(MainThread)
    \/ RepoOnceLock(MainThread)
    \/ RepoInit(MainThread)
    \/ RepoOnceDone(MainThread)
    \/ RepoReturn(MainThread)
    \/ CallDeployer(MainThread)
    \/ DeployerSICash(MainThread)
    \/ DeployerNewSICash(MainThread)
    \/ DeployerEth(MainThread)
    \/ DeployerNewEth(MainThread)
    \/ DeployerCheck(MainThread)
    \/ CallExpandJSONParams(MainThread)
    \/ ExpandJSONParams(MainThread)
    \/ PanicRecovered(MainThread)
    \/ PanicUnrecovered(MainThread)

SpecMain == InitMain /\ [][NextMain]_vars

\* ==================================================================
\* Properties
\* ==================================================================
\* The call goroutine t made last came back with a value.
HasReturned(t, name) == ret[t].op = name /\ ret[t].kind = "returned"

\* The call goroutine t made last ended, by a return or by ending the process.
HasEnded(t, name) == ret[t].op = name /\ ret[t].kind \in {"returned", "fatal"}

ValidURLs == {"http://user:pw@a:3889", "http://b:8545"}

\* C1: with a valid endpoint configured (here: only --sicash_rpc, so that one
\* call needs one constructor), however many Deployer() calls the goroutines
\* make, the backend constructor is invoked exactly once in total and every
\* call returns the identical deployer instance.
C1_DeployerConstructedOnce ==
    (sicashRPC \in ValidURLs /\ ethRPC = "") =>
        /\ (\E t \in Threads : HasReturned(t, "Deployer")) => Len(built) = 1
        /\ \A t, u \in Threads :
              (HasReturned(t, "Deployer") /\ HasReturned(u, "Deployer"))
                  => ret[t].val = ret[u].val

\* At most one open; whoever holds a repository handle holds the first one.
C2_OneHandle ==
    /\ Len(opened) <= 1
    /\ repo # 0 => repo = 1 /\ Len(opened) = 1
    /\ \A t \in Threads :
          /\ HasReturned(t, "ContractsRepository") => ret[t].val = 1 /\ repo = 1
          /\ pc[t] \in {"dep_new_sicash", "dep_new_eth", "exp_expand"}
                => rv[t] = 1 /\ repo = 1

\* The repo field, once set, is not assigned again.
C2_RepoSetOnce == [][repo # 0 => repo' = repo]_vars

\* C2: OpenContractsRepository is invoked at most once, whichever of
\* ContractsRepository, Deployer and ExpandJSONParams the goroutines call and
\* however they interleave; the repo field, once set, never changes; every
\* call that returns, and every caller that goes on with the handle, has the
\* one handle that was opened.
C2_RepositoryOpenedOnce == []C2_OneHandle /\ C2_RepoSetOnce

C2_Witness ==
    \E t, u \in Threads :
        /\ HasReturned(t, "ContractsRepository")
        /\ HasReturned(u, "Deployer")
        /\ ret[u].val.repo = ret[t].val

\* C3: however many goroutines call Reporter(), one events value (one channel)
\* is allocated and one drain goroutine is started for it; no two callers hold
\* different reporters.
C3_ReporterStartedOnce ==
    /\ nevents <= 1
    /\ Len(started) <= 1
    /\ \A t \in Threads :
          HasReturned(t, "Reporter") =>
              /\ nevents = 1
              /\ started = <<ret[t].val>>
              /\ ret[t].val = reporter
    /\ \A t, u \in Threads :
          (HasReturned(t, "Reporter") /\ HasReturned(u, "Reporter"))
              => ret[t].val = ret[u].val

C3_Witness ==
    \E t, u \in Threads :
        t # u /\ HasReturned(t, "Reporter") /\ HasReturned(u, "Reporter")

\* C4: with both --sicash_rpc and --eth_rpc empty, a call of RPCPlatform() or
\* Deployer() that ends, ends the process with the unspecified-RPC error;
\* neither returns a value.
C4_UnspecifiedEndpointFatal ==
    (sicashRPC = "" /\ ethRPC = "") =>
        \A t \in Threads :
            (HasEnded(t, "RPCPlatform") \/ HasEnded(t, "Deployer"))
                => /\ ret[t].kind = "fatal"
                   /\ ret[t].val = "unspecified RPC"
                   /\ exit = "unspecified RPC"

C4_Witness ==
    /\ sicashRPC = "" /\ ethRPC = ""
    /\ \E t \in Threads : ret[t] = Fatal("Deployer", "unspecified RPC")
    /\ exit = "unspecified RPC"

\* C5: RPCPlatform() returns RPCSICash whenever --sicash_rpc is non-empty,
\* whatever --eth_rpc is, and RPCEthereum exactly when --sicash_rpc is empty
\* and --eth_rpc is not.
C5_PlatformSelection ==
    \A t \in Threads :
        HasEnded(t, "RPCPlatform") =>
            /\ sicashRPC # "" => ret[t] = Returned("RPCPlatform", RPCSICash)
            /\ ret[t] = Returned("RPCPlatform", RPCEthereum)
                  <=> (sicashRPC = "" /\ ethRPC # "")

C5_Witness ==
    /\ sicashRPC # "" /\ ethRPC # ""
    /\ \E t \in Threads : ret[t] = Returned("RPCPlatform", RPCSICash)

\* C6: with at least one endpoint set, the deployer Deployer() returns is of
\* the backend RPCPlatform() selects; with both set it is the sicash deployer
\* bound to the --sicash_rpc endpoint.
C6_DeployerMatchesPlatform ==
    \A t \in Threads :
        HasReturned(t, "Deployer") =>
            /\ ret[t].val.backend = (IF RPCPlatform = RPCSICash THEN "sicash" ELSE "eth")
            /\ (sicashRPC # "" /\ ethRPC # "") =>
                  /\ ret[t].val.backend = "sicash"
                  /\ ret[t].val.url = sicashRPC

\* C7: once ConfigureBytesOutputFormat() has run, prefixed formatting is on
\* if and only if RPCPlatform() selects RPCEthereum for the configuration; it
\* stays off wherever RPCSICash is selected, both endpoints set included.
C7_PrefixFollowsPlatform ==
    (\E t \in Threads : HasReturned(t, "ConfigureBytesOutputFormat")) =>
        (formatBytesWithPrefix <=> (~RPCPlatformFatal /\ RPCPlatform = RPCEthereum))

\* C8: the path passed to OpenContractsRepository is the --repo override
\* whenever that is non-empty, for every environment name, and
\* "solar.<env>.json" whenever it is empty.
C8_RepositoryPath ==
    \A i \in 1..Len(opened) :
        /\ solarRepo # "" => opened[i] = solarRepo
        /\ (solarRepo = "" /\ solarEnv = "development")
              => opened[i] = "solar.development.json"
        /\ (solarRepo = "" /\ solarEnv = "staging")
              => opened[i] = "solar.staging.json"

C8_Witness ==
    /\ solarRepo = "contracts.json"
    /\ solarEnv = "staging"
    /\ opened = <<"contracts.json">>
    /\ \E t \in Threads : HasReturned(t, "ContractsRepository")

\* ---- templates, by their segments
Known == {<<"T">>, <<"U">>}

\* The segments are what a scan finds: no bare $Name runs into text that
\* starts with an identifier character (which would lengthen the name).
Canonical(segs) ==
    \A i \in 1..(Len(segs) - 1) :
        (segs[i].kind = "bare" /\ segs[i + 1].kind = "text")
            => Head(segs[i + 1].s) \notin {"T", "U", "M", "N"}

PlaceholderIndexes(segs) == {i \in 1..Len(segs) : segs[i].kind # "text"}

AllKnown(segs) == \A i \in PlaceholderIndexes(segs) : segs[i].s \in Known

\* The identifier of the leftmost placeholder that names no contract.
FirstUnknown(segs) ==
    LET bad == {i \in PlaceholderIndexes(segs) : segs[i].s \notin Known}
        first == CHOOSE i \in bad : \A j \in bad : i <= j
    IN  segs[first].s

\* The address string of a contract of the repository, as it is rendered now.
ExpectedAddress(name) ==
    CASE name = <<"T">> -> IF formatBytesWithPrefix THEN <<"0", "x", "1">> ELSE <<"1">>
      [] name = <<"U">> -> IF formatBytesWithPrefix THEN <<"0", "x", "2">> ELSE <<"2">>

RECURSIVE ExpectedOutput(_)
ExpectedOutput(segs) ==
    IF segs = <<>> THEN <<>>
    ELSE (IF Head(segs).kind = "text" THEN Head(segs).s
          ELSE ExpectedAddress(Head(segs).s)) \o ExpectedOutput(Tail(segs))

\* ExpandJSONParams ran its expansion: it returned a string or panicked.
HasExpanded(t) ==
    ret[t].op = "ExpandJSONParams" /\ ret[t].kind \in {"returned", "panic"}

\* C9: for a template whose placeholders all name contracts of the repository,
\* ExpandJSONParams returns the template with every $Name and ${Name} replaced
\* by that contract's address string and all other text unchanged.
C9_ExpandsKnownPlaceholders ==
    \A t \in Threads :
        (HasExpanded(t) /\ Canonical(arg[t]) /\ AllKnown(arg[t]))
            => ret[t] = Returned("ExpandJSONParams", ExpectedOutput(arg[t]))

C9_Witness ==
    /\ arg[MainThread] = <<[kind |-> "bare", s |-> <<"T">>],
                           [kind |-> "braced", s |-> <<"U">>]>>
    /\ ret[MainThread] = Returned("ExpandJSONParams", <<"0", "x", "1", "0", "x", "2">>)

\* C10 as stated: an expansion that meets an unknown placeholder aborts at the
\* leftmost one with its identifier, and the process goes on running with its
\* repository handle unchanged.
C10_AbortSparesProcess ==
    \A t \in Threads :
        (ret[t].kind = "panic" /\ Canonical(arg[t])) =>
            /\ ret[t].val = FirstUnknown(arg[t])
            /\ repo = 1
            /\ exit = Running

\* What holds of an aborted expansion, and of one that follows a recovered abort.
C10_AbortInv ==
    /\ \A t \in Threads :
          /\ (HasExpanded(t) /\ Canonical(arg[t]) /\ ~AllKnown(arg[t]))
                => ret[t] = Panicked("ExpandJSONParams", FirstUnknown(arg[t]))
          /\ ret[t].kind = "panic"
                => /\ repo = 1 /\ repoOnce.done
                   /\ exit \in {Running, "panic"}
                   /\ exit = "panic" => pc[t] = "panicking"
          /\ (recovered > 0 /\ HasExpanded(t) /\ Canonical(arg[t]) /\ AllKnown(arg[t]))
                => ret[t] = Returned("ExpandJSONParams", ExpectedOutput(arg[t]))
    /\ exit = "panic" => \E t \in Threads : pc[t] = "panicking"

\* The expansion and the unwinding leave the repository handle alone.
C10_AbortKeepsRepo ==
    [][(\E t \in Threads : pc[t] \in {"exp_expand", "panicking"})
          => (repo' = repo /\ repoOnce' = repoOnce)]_vars

\* C10, amended: the expansion aborts at the leftmost unknown placeholder with
\* a panic carrying its identifier and returns no string; the panic leaves the
\* repository handle as it was and unwinds into the calling task; the process
\* ends unless the task recovers it, and after a recovered abort a later
\* expansion of a resolvable template succeeds.
C10_AbortUnwindsToCaller == []C10_AbortInv /\ C10_AbortKeepsRepo

C10_Witness ==
    /\ recovered = 1
    /\ exit = Running
    /\ arg[MainThread] = <<[kind |-> "text", s |-> <<"=">>],
                           [kind |-> "braced", s |-> <<"T">>]>>
    /\ ret[MainThread] = Returned("ExpandJSONParams", <<"=", "1">>)

\* ---- one Deployer call
\* The backend and endpoint that take priority: sicash when --sicash_rpc is set.
ChosenBackend == IF sicashRPC # "" THEN "sicash" ELSE "eth"
ChosenEndpoint == IF sicashRPC # "" THEN sicashRPC ELSE ethRPC

\* The run consists of one Deployer() call, made by goroutine t: every
\* collaborator invocation logged so far is that call's.
OnlyDeployerCall(t) == calls = 1 /\ op[t] = "Deployer"

\* C12: one Deployer() call invokes at most one backend constructor and parses
\* at most one endpoint URL (each constructor is handed the URL parsed for
\* it), whatever the configuration; beyond that it only opens the repository.
C12_DeployerOneConstructor ==
    \A t \in Threads :
        OnlyDeployerCall(t) =>
            /\ Len(built) <= 1
            /\ Cardinality({built[i].url : i \in 1..Len(built)}) <= 1
            /\ Len(opened) <= 1
            /\ nevents = 0 /\ reporter = 0 /\ started = <<>>
            /\ ~formatBytesWithPrefix
            /\ depoyer = NilDeployer

\* C13 (its part that does not depend on how a constructor hands back its
\* failure): when the constructor of the chosen backend has returned an error,
\* Deployer() does not return a deployer.
C13_ConstructorErrorNeverReturns ==
    \A t \in Threads :
        (/\ OnlyDeployerCall(t)
         /\ \E i \in 1..Len(built) :
               built[i].backend = ChosenBackend /\ ~built[i].ok)
            => ~HasReturned(t, "Deployer")

C16_OpenFailureTerminates ==
    /\ Len(opened) <= 1
    /\ (Len(opened) >= 1 /\ repo = 0) => exit = "repo open failed"
    /\ exit = "repo open failed" => repo = 0 /\ built = <<>>
    /\ \A i \in 1..Len(built) : built[i].repo # 0
    /\ \A t \in Threads :
          /\ HasReturned(t, "ContractsRepository") => ret[t].val # 0
          /\ pc[t] \in {"dep_new_sicash", "dep_new_eth", "exp_expand"} => rv[t] # 0
          /\ exit = "repo open failed"
                => ~HasReturned(t, "ContractsRepository") /\ ~HasReturned(t, "Deployer")

\* The open failed under a Deployer() call while another goroutine waits on
\* the once's mutex for the handle.
C16_Witness ==
    /\ exit = "repo open failed"
    /\ \E t, u \in Threads :
          /\ ret[t] = [op |-> "Deployer", kind |-> "fatal", val |-> "repo open failed"]
          /\ pc[u] = "repo_lock"

\* C18: the handle Deployer() hands to a backend constructor and the handle
\* ExpandJSONParams() looks identifiers up in are the instance the repo field
\* holds, which is what ContractsRepository() returns.
C18_SameRepositoryInstance ==
    /\ \A i \in 1..Len(built) : repo # 0 /\ built[i].repo = repo
    /\ \A t \in Threads :
          /\ pc[t] = "exp_expand" => repo # 0 /\ rv[t] = repo
          /\ HasReturned(t, "ContractsRepository") => ret[t].val = repo
          /\ HasReturned(t, "Deployer") => ret[t].val.repo = repo

\* One goroutine's Deployer() has handed the handle to a constructor while the
\* other's ExpandJSONParams() is about to look identifiers up in it.
C18_Witness ==
    \E t, u \in Threads :
        /\ built # <<>>
        /\ op[t] = "Deployer"
        /\ pc[u] = "exp_expand"
        /\ rv[u] = built[1].repo

\* ---- Main's order
\* No step of a task has happened: no call into the context, no open, no
\* constructor, no reporter.
NoTaskStep ==
    /\ calls = 0
    /\ opened = <<>> /\ built = <<>> /\ started = <<>>
    /\ \A t \in Threads : pc[t] = "idle" /\ ret[t] = NoRet

\* C15: when Main's argument parsing succeeds, ConfigureBytesOutputFormat()
\* has run exactly once when the task starts and no task step comes before
\* it; when parsing fails, neither it nor any task step happens.
C15_ConfigureBeforeTask ==
    /\ configured <= 1
    /\ mainpc \in {"parse", "configure"} => configured = 0 /\ NoTaskStep
    /\ mainpc = "task" => configured = 1 /\ (ethRPC # "" => formatBytesWithPrefix)
    /\ ~NoTaskStep => mainpc = "task"
    /\ exit = "parse failed" => mainpc = "parse"

\* The task has returned from a Deployer() call made after the toggle was set
\* for --eth_rpc.
C15_Witness ==
    /\ mainpc = "task"
    /\ configured = 1
    /\ formatBytesWithPrefix
    /\ HasReturned(MainThread, "Deployer")

HoldsOnce(t) == repoOnce.m = t \/ reporterOnce.m = t \/ deployerOnce.m = t

\* Goroutine t is inside a call and cannot take a step.
Blocked(t) == exit = Running /\ pc[t] # "idle" /\ ~ENABLED Work(t)

\* C17: no goroutine is at a send on the reporter's channel while it holds a
\* once's mutex, and there is no deadlock: a goroutine that cannot step waits
\* for a mutex whose holder can step, or at a send while the drain goroutine
\* can step.
C17_NoDeadlock ==
    \A t \in Threads :
        /\ pc[t] = "rep_send" => ~HoldsOnce(t)
        /\ Blocked(t) =>
              \/ /\ pc[t] = "repo_lock"
                 /\ repoOnce.m \in Threads \ {t}
                 /\ ~Blocked(repoOnce.m)
              \/ /\ pc[t] = "rep_lock"
                 /\ reporterOnce.m \in Threads \ {t}
                 /\ ~Blocked(reporterOnce.m)
              \/ /\ pc[t] = "rep_send"
                 /\ ENABLED DrainStep

\* One goroutine is blocked at its send while the other is inside the
\* repository's one-time initialization.
C17_Witness ==
    \E t, u \in Threads :
        /\ pc[t] = "rep_send" /\ Blocked(t)
        /\ pc[u] = "repo_init" /\ HoldsOnce(u)

====
